---- MODULE Spec2Model ----
(***************************************************************************)
(* Model of the two batch generators of rag-service/scripts:               *)
(*   generate-all-configs.py   (Analysis Checks -> one YAML per phase)     *)
(*   generate-cross-estar.py   (Cross-Phase and eSTAR -> one YAML each)    *)
(* A string is a sequence of one-character strings; a CSV row as returned  *)
(* by csv.DictReader is a function from the header's column names to cell  *)
(* values; a Python dict is a sequence of [k, v] entries in insertion      *)
(* order.                                                                  *)
(***************************************************************************)
EXTENDS Integers, Sequences, FiniteSets, TLC

VARIABLES
    script,          \* the script that was started
    pc,              \* position of the running script
    uploads,         \* the input CSV files: name -> [header, rows]
    analysis_checks, \* generate-all-configs.py: list(reader)
    phase_data,      \* generate-all-configs.py: phase -> category -> rows
    todo,            \* phases the loop of line 36 has still to process
    files,           \* output directory: entries [path, doc], overwritten in place
    writes,          \* history: the paths written, in the order of the writes
    out,             \* console lines that report counts
    fault            \* the uncaught exception that ended the run, or "none"

vars == <<script, pc, uploads, analysis_checks, phase_data, todo, files, writes, out, fault>>

----------------------------------------------------------------------------
(* Characters and strings *)

\* The characters of the model, in code point order (Python compares strings
\* by code point).
Alphabet ==
    << " ", "&", "(", ")", ",", "-", "/",
       "0", "1", "2", "3", "4", "5", "6", "7", "8", "9",
       "A", "B", "C", "D", "E", "F", "G", "H", "I", "J", "K", "L", "M",
       "N", "O", "P", "Q", "R", "S", "T", "U", "V", "W", "X", "Y", "Z",
       "_",
       "a", "b", "c", "d", "e", "f", "g", "h", "i", "j", "k", "l", "m",
       "n", "o", "p", "q", "r", "s", "t", "u", "v", "w", "x", "y", "z" >>

UpperChars ==
    << "A", "B", "C", "D", "E", "F", "G", "H", "I", "J", "K", "L", "M",
       "N", "O", "P", "Q", "R", "S", "T", "U", "V", "W", "X", "Y", "Z" >>

LowerChars ==
    << "a", "b", "c", "d", "e", "f", "g", "h", "i", "j", "k", "l", "m",
       "n", "o", "p", "q", "r", "s", "t", "u", "v", "w", "x", "y", "z" >>

DigitChars == << "0", "1", "2", "3", "4", "5", "6", "7", "8", "9" >>

\* str.split() with no argument splits on whitespace.
WhiteSpace == {" "}

Range(s) == { s[i] : i \in DOMAIN s }

IndexOf(s, x) == CHOOSE i \in DOMAIN s : s[i] = x

Ord(c) == IndexOf(Alphabet, c)

\* Python's < on str: the first differing character decides, a proper prefix
\* is smaller.
StrLess(a, b) ==
    \E i \in 1..(Len(b)) :
        /\ \A j \in 1..(i - 1) : j <= Len(a) /\ a[j] = b[j]
        /\ \/ i = Len(a) + 1
           \/ i <= Len(a) /\ Ord(a[i]) < Ord(b[i])

\* The value csv.DictReader gives a column the row has no cell for (restval).
None == << "<None>" >>

LowerChar(c) == IF c \in Range(UpperChars) THEN LowerChars[IndexOf(UpperChars, c)] ELSE c

UpperChar(c) == IF c \in Range(LowerChars) THEN UpperChars[IndexOf(LowerChars, c)] ELSE c

\* str.lower()
Lower(s) == [i \in 1..Len(s) |-> LowerChar(s[i])]

\* str.upper()
Upper(s) == [i \in 1..Len(s) |-> UpperChar(s[i])]

\* Take with the slice one character too long
TakeOneMore(s, n) == SubSeq(s, 1, IF Len(s) < n + 1 THEN Len(s) ELSE n + 1)

\* s[:n]
Take(s, n) == SubSeq(s, 1, IF Len(s) < n THEN Len(s) ELSE n)

RECURSIVE Replace(_, _, _)
\* str.replace(c, r) for a one-character c
Replace(s, c, r) ==
    IF s = << >> THEN << >>
    ELSE (IF Head(s) = c THEN r ELSE << Head(s) >>) \o Replace(Tail(s), c, r)

RECURSIVE Split(_, _)
\* str.split(): the maximal runs of non-whitespace characters; cur is the
\* run being read
Split(s, cur) ==
    IF s = << >> THEN (IF cur = << >> THEN << >> ELSE << cur >>)
    ELSE IF Head(s) \in WhiteSpace
         THEN (IF cur = << >> THEN << >> ELSE << cur >>) \o Split(Tail(s), << >>)
         ELSE Split(Tail(s), Append(cur, Head(s)))

RECURSIVE Digits(_)
\* the decimal digits of n >= 0, most significant first
Digits(n) ==
    IF n < 10 THEN << DigitChars[n + 1] >>
    ELSE Append(Digits(n \div 10), DigitChars[(n % 10) + 1])

\* the minimum field width of the format specification 03d
PadWidth == 3

\* Pad3 with the format specification d: no padding
Pad3Unpadded(idx) == Digits(idx)

\* f'{idx:03d}': zero-padded to PadWidth digits, longer numbers are kept whole
Pad3(idx) ==
    LET d == Digits(idx)
    IN  [i \in 1..(IF Len(d) < PadWidth THEN PadWidth - Len(d) ELSE 0) |-> "0"] \o d

\* the length check_name is cut to
NameLen == 100

----------------------------------------------------------------------------
(* Python dicts and csv.DictReader *)

DictHas(d, k) == \E i \in DOMAIN d : d[i].k = k

DictGet(d, k) == d[CHOOSE i \in DOMAIN d : d[i].k = k].v

\* d[k] = v: a key the dict already holds keeps its position and gets the new
\* value, a new key is appended
DictSet(d, k, v) ==
    IF DictHas(d, k)
    THEN [i \in DOMAIN d |-> IF d[i].k = k THEN [k |-> k, v |-> v] ELSE d[i]]
    ELSE Append(d, [k |-> k, v |-> v])

Keys(d) == [i \in DOMAIN d |-> d[i].k]

\* check.get(col, default)
Get(row, col, default) == IF col \in DOMAIN row THEN row[col] ELSE default

\* One record of csv.DictReader: every column of the header is a key; a column
\* the row has no cell for gets None.
DictRow(header, cells) ==
    [c \in Range(header) |->
        IF IndexOf(header, c) <= Len(cells) THEN cells[IndexOf(header, c)] ELSE None]

\* DictReader with a record for a blank line too
DictReaderKeepsBlank(csv) == [i \in DOMAIN csv.rows |-> DictRow(csv.header, csv.rows[i])]

\* list(csv.DictReader(f)): rows without any cell are skipped
DictReader(csv) ==
    LET kept == SelectSeq(csv.rows, LAMBDA cells : cells # << >>)
    IN  [i \in DOMAIN kept |-> DictRow(csv.header, kept[i])]

\* The first fault of a sequence of steps, "none" when none faults.
FirstFault(fs) ==
    IF \A i \in DOMAIN fs : fs[i] = "none" THEN "none"
    ELSE fs[CHOOSE i \in DOMAIN fs : fs[i] # "none" /\ \A j \in 1..(i - 1) : fs[j] = "none"]

\* row[col]: KeyError when the header has no such column
Required(row, col) == IF col \in DOMAIN row THEN "none" ELSE "KeyError"

\* row[col][:100]: KeyError without the column, TypeError on None
Sliced(row, col) ==
    IF col \notin DOMAIN row THEN "KeyError"
    ELSE IF row[col] = None THEN "TypeError" ELSE "none"

RECURSIVE SortStrings(_)
\* sorted() of a set of strings
SortStrings(S) ==
    IF S = {} THEN << >>
    ELSE LET m == CHOOSE x \in S : \A y \in S \ {x} : StrLess(x, y)
         IN  << m >> \o SortStrings(S \ {m})

\* sorted(d.items()) compares the keys (they are distinct): None and a str do
\* not compare
SortedFault(d) == IF Len(d) >= 2 /\ None \in Range(Keys(d)) THEN "TypeError" ELSE "none"

SortedKeys(d) == SortStrings(Range(Keys(d)))

\* The dict a grouping loop builds,
\*     for check in rows: if key not in groups: groups[key] = []
\*                        groups[key].append(check)
\* over the rows at positions idxs (ascending), keys[i] being the key of row
\* i: the keys in the order they are first seen, each with the positions of
\* its rows in input order.
Grouped(keys, idxs) ==
    LET firsts == { p \in DOMAIN idxs :
                      \A q \in 1..(p - 1) : keys[idxs[q]] # keys[idxs[p]] }
        nth(m) == CHOOSE p \in firsts : Cardinality({ q \in firsts : q < p }) = m - 1
    IN  [m \in 1..Cardinality(firsts) |->
            [ k |-> keys[idxs[nth(m)]],
              v |-> SelectSeq(idxs, LAMBDA i : keys[i] = keys[idxs[nth(m)]]) ]]

\* lines 15-20 and 60-65 of generate-cross-estar.py
GroupBy(rows, col) ==
    Grouped([i \in DOMAIN rows |-> rows[i][col]], [i \in DOMAIN rows |-> i])

----------------------------------------------------------------------------
(* generate-all-configs.py *)

\* safe_key(text)
safe_key(text) ==
    Replace(Replace(Replace(Replace(Replace(Replace(Lower(text),
        " ", << "_" >>), "&", << "a", "n", "d" >>), "(", << >>), ")", << >>),
        "-", << "_" >>), ",", << >>)

\* lines 23-33: phase_data[phase][category].append(check)
GroupByPhase(rows) ==
    LET phases == GroupBy(rows, "Phase")
    IN  [p \in DOMAIN phases |->
            [ k |-> phases[p].k,
              v |-> Grouped([i \in DOMAIN rows |-> rows[i]["Category"]], phases[p].v) ]]

\* lines 24-26: the first row read raises KeyError when the header has no
\* Phase or no Category column
GroupFault(rows) ==
    FirstFault([i \in DOMAIN rows |->
        FirstFault(<< Required(rows[i], "Phase"), Required(rows[i], "Category") >>)])

DescCol == "Draft Analysis Check (for review/editing)"

\* lines 55-63: the subscripts evaluated to build one check_cfg, in order
AnalysisRowFault(row) ==
    FirstFault(<< Sliced(row, DescCol),
                  Required(row, "Regulatory Source"),
                  Required(row, "Source Section"),
                  Required(row, "eSTAR Section Relevance") >>)

\* line 51
AnalysisCheckId(phase_num, cat_key, idx) ==
    << "P" >> \o phase_num \o << "-" >> \o Upper(Take(cat_key, 4)) \o << "-" >> \o Pad3(idx)

\* lines 53-76; row is the position of the input row (history, not emitted)
AnalysisCheckCfg(rows, r, check_id) ==
    [ row                    |-> r,
      check_id               |-> check_id,
      check_name             |-> Take(rows[r][DescCol], NameLen),
      severity               |-> "high",
      regulatory_source      |-> rows[r]["Regulatory Source"],
      source_section         |-> rows[r]["Source Section"],
      estar_section          |-> rows[r]["eSTAR Section Relevance"],
      design_vv_reference    |-> Get(rows[r], "Design V&V Reference", << >>),
      testing_ref            |-> Get(rows[r], "Testing Ref", << >>),
      llm_validation         |-> [ question |-> rows[r][DescCol],
                                   validation_criteria |-> [must_include |-> << >>] ],
      failure_message        |-> << "Validation check " >> \o check_id \o << " failed" >>,
      remediation            |-> << "Review regulatory requirements",
                                    "Update documentation per guidance" >>,
      priority               |-> Get(rows[r], "Priority", << >>),
      automation_feasibility |-> Get(rows[r], "Automation Feasibility", << >>),
      notes                  |-> Get(rows[r], "Notes", << >>) ]

\* lines 43-78: the group of one category
AnalysisGroup(rows, phase_name, phase_num, category, checks) ==
    [ display_name      |-> category,
      folder_path       |-> phase_name \o << "/" >> \o category,
      check_count       |-> Len(checks),
      validation_checks |->
          [idx \in 1..Len(checks) |->
              AnalysisCheckCfg(rows, checks[idx],
                  AnalysisCheckId(phase_num, safe_key(category), idx))] ]

RECURSIVE AnalysisConfig(_, _, _, _, _, _)
\* lines 40-78: config[cat_key] = {...} for the categories in sorted order
AnalysisConfig(rows, phase_name, phase_num, categories, order, config) ==
    IF order = << >> THEN config
    ELSE LET category == Head(order)
         IN  AnalysisConfig(rows, phase_name, phase_num, categories, Tail(order),
                 DictSet(config, safe_key(category),
                     AnalysisGroup(rows, phase_name, phase_num, category,
                         DictGet(categories, category))))

\* lines 37-78: the first exception one iteration of the phase loop raises
PhaseFault(rows, phase_name, categories) ==
    FirstFault(<<
        IF phase_name = None THEN "AttributeError"
        ELSE IF Split(phase_name, << >>) = << >> THEN "IndexError" ELSE "none",
        SortedFault(categories),
        IF SortedFault(categories) # "none" THEN "none"
        ELSE LET order == SortedKeys(categories)
             IN  FirstFault([c \in DOMAIN order |->
                     IF order[c] = None THEN "AttributeError"
                     ELSE LET checks == DictGet(categories, order[c])
                          IN  FirstFault([i \in DOMAIN checks |->
                                  AnalysisRowFault(rows[checks[i]])])]) >>)

\* line 37
PhaseNum(phase_name) == LET tokens == Split(phase_name, << >>) IN tokens[Len(tokens)]

\* line 81
PhaseFile(phase_num) == << "phase", phase_num, "-validation.yaml" >>

\* line 85
TotalChecks(config) ==
    LET n[i \in 0..Len(config)] ==
            IF i = 0 THEN 0 ELSE n[i - 1] + Len(config[i].v.validation_checks)
    IN  n[Len(config)]

\* lines 17-36: read the CSV, group the rows, sort the phases
ReadAndGroup ==
    /\ pc = "analysis"
    /\ LET rows == DictReader(uploads.analysis)
       IN  /\ analysis_checks' = rows
           /\ IF GroupFault(rows) # "none"
              THEN /\ fault' = GroupFault(rows)
                   /\ pc' = "fault"
                   /\ UNCHANGED <<phase_data, todo>>
              ELSE LET pd == GroupByPhase(rows)
                   IN  /\ phase_data' = pd
                       /\ IF SortedFault(pd) # "none"
                          THEN /\ fault' = SortedFault(pd)
                               /\ pc' = "fault"
                               /\ UNCHANGED todo
                          ELSE /\ todo' = SortedKeys(pd)
                               /\ pc' = "phases"
                               /\ UNCHANGED fault
    /\ UNCHANGED <<script, uploads, files, writes, out>>

\* lines 36-86: one iteration of the phase loop
PhaseStep ==
    /\ pc = "phases"
    /\ todo # << >>
    /\ LET phase_name == Head(todo)
           categories == DictGet(phase_data, phase_name)
           f          == PhaseFault(analysis_checks, phase_name, categories)
       IN  IF f # "none"
           THEN /\ fault' = f
                /\ pc' = "fault"
                /\ UNCHANGED <<todo, files, writes, out>>
           ELSE LET phase_num == PhaseNum(phase_name)
                    config    == AnalysisConfig(analysis_checks, phase_name, phase_num,
                                     categories, SortedKeys(categories), << >>)
                IN  /\ files' = DictSet(files, PhaseFile(phase_num), config)
                    /\ writes' = Append(writes, PhaseFile(phase_num))
                    /\ out' = Append(out, [ line       |-> "created",
                                            file       |-> PhaseFile(phase_num),
                                            checks     |-> TotalChecks(config),
                                            categories |-> Len(config) ])
                    /\ todo' = Tail(todo)
                    /\ UNCHANGED <<pc, fault>>
    /\ UNCHANGED <<script, uploads, analysis_checks, phase_data>>

\* lines 88-89
Summary ==
    /\ pc = "phases"
    /\ todo = << >>
    /\ out' = Append(out, [line |-> "total", checks |-> Len(analysis_checks)])
    /\ pc' = "done"
    /\ UNCHANGED <<script, uploads, analysis_checks, phase_data, todo, files, writes, fault>>

----------------------------------------------------------------------------
(* generate-cross-estar.py *)

\* lines 23 and 68
type_key(label) == Replace(Lower(label), " ", << "_" >>)

\* lines 17 and 62: the first row read raises KeyError when the header has
\* no such column
LabelFault(rows, col) == FirstFault([i \in DOMAIN rows |-> Required(rows[i], col)])

\* lines 34-41
CrossRowFault(row) ==
    FirstFault(<< Sliced(row, DescCol),
                  Required(row, "Phases/Categories Involved"),
                  Required(row, "Regulatory Source"),
                  Required(row, "Source Section"),
                  Required(row, "eSTAR Section Relevance") >>)

\* lines 79-83
EstarRowFault(row) ==
    FirstFault(<< Sliced(row, "Draft Analysis Check"),
                  Required(row, "eSTAR Section"),
                  Required(row, "FDA Guidance Reference") >>)

\* line 31
CrossCheckId(key, idx) ==
    << "X", "-" >> \o Upper(Take(key, 5)) \o << "-" >> \o Pad3(idx)

\* line 76
EstarCheckId(key, idx) ==
    << "E", "S", "T", "A", "R", "-" >> \o Upper(Take(key, 6)) \o << "-" >> \o Pad3(idx)

\* lines 32-47; row is the position of the input row (history, not emitted)
CrossCheckCfg(rows, r, check_id) ==
    [ row                    |-> r,
      check_id               |-> check_id,
      check_name             |-> Take(rows[r][DescCol], NameLen),
      phases_involved        |-> rows[r]["Phases/Categories Involved"],
      regulatory_source      |-> rows[r]["Regulatory Source"],
      source_section         |-> rows[r]["Source Section"],
      estar_section          |-> rows[r]["eSTAR Section Relevance"],
      design_vv_reference    |-> Get(rows[r], "Design V&V Reference", << >>),
      llm_validation         |-> [ question |-> rows[r][DescCol],
                                   validation_criteria |-> [must_include |-> << >>] ],
      priority               |-> Get(rows[r], "Priority", << >>),
      automation_feasibility |-> Get(rows[r], "Automation Feasibility", << >>),
      notes                  |-> Get(rows[r], "Notes", << >>) ]

\* lines 77-88
EstarCheckCfg(rows, r, check_id) ==
    [ row            |-> r,
      check_id       |-> check_id,
      check_name     |-> Take(rows[r]["Draft Analysis Check"], NameLen),
      estar_section  |-> rows[r]["eSTAR Section"],
      fda_guidance   |-> rows[r]["FDA Guidance Reference"],
      llm_validation |-> [ question |-> rows[r]["Draft Analysis Check"],
                           validation_criteria |-> [must_include |-> << >>] ],
      priority       |-> Get(rows[r], "Priority", << >>),
      notes          |-> Get(rows[r], "Notes", << >>) ]

\* lines 24-47
CrossGroup(rows, check_type, checks) ==
    [ display_name      |-> check_type,
      check_count       |-> Len(checks),
      validation_checks |->
          [idx \in 1..Len(checks) |->
              CrossCheckCfg(rows, checks[idx], CrossCheckId(type_key(check_type), idx))] ]

\* lines 69-88
EstarGroup(rows, section, checks) ==
    [ display_name      |-> section,
      check_count       |-> Len(checks),
      validation_checks |->
          [idx \in 1..Len(checks) |->
              EstarCheckCfg(rows, checks[idx], EstarCheckId(type_key(section), idx))] ]

RECURSIVE CrossConfig(_, _, _, _)
\* lines 22-47: cross_config[type_key] = {...} for the groups in insertion order
CrossConfig(rows, check_types, g, config) ==
    IF g > Len(check_types) THEN config
    ELSE CrossConfig(rows, check_types, g + 1,
             DictSet(config, type_key(check_types[g].k),
                 CrossGroup(rows, check_types[g].k, check_types[g].v)))

RECURSIVE EstarConfig(_, _, _, _)
\* lines 67-88: estar_config[section_key] = {...} for the groups in insertion order
EstarConfig(rows, sections, g, config) ==
    IF g > Len(sections) THEN config
    ELSE EstarConfig(rows, sections, g + 1,
             DictSet(config, type_key(sections[g].k),
                 EstarGroup(rows, sections[g].k, sections[g].v)))

\* lines 16-47: the first exception the cross-phase stage raises
CrossFault(rows) ==
    FirstFault(<<
        LabelFault(rows, "Check Type"),
        IF LabelFault(rows, "Check Type") # "none" THEN "none"
        ELSE LET check_types == GroupBy(rows, "Check Type")
             IN  FirstFault([g \in DOMAIN check_types |->
                     IF check_types[g].k = None THEN "AttributeError"
                     ELSE FirstFault([i \in DOMAIN check_types[g].v |->
                              CrossRowFault(rows[check_types[g].v[i]])])]) >>)

\* lines 61-88: the first exception the eSTAR stage raises
EstarFault(rows) ==
    FirstFault(<<
        LabelFault(rows, "Check Category"),
        IF LabelFault(rows, "Check Category") # "none" THEN "none"
        ELSE LET sections == GroupBy(rows, "Check Category")
             IN  FirstFault([g \in DOMAIN sections |->
                     IF sections[g].k = None THEN "AttributeError"
                     ELSE FirstFault([i \in DOMAIN sections[g].v |->
                              EstarRowFault(rows[sections[g].v[i]])])]) >>)

\* line 49
CrossFile == << "cross-cutting-validation.yaml" >>

\* line 90
EstarFile == << "estar-validation.yaml" >>

\* lines 9-51: the cross-phase stage
CrossStage ==
    /\ pc = "cross"
    /\ LET cross_checks == DictReader(uploads.cross)
       IN  IF CrossFault(cross_checks) # "none"
           THEN /\ fault' = CrossFault(cross_checks)
                /\ pc' = "fault"
                /\ UNCHANGED <<files, writes, out>>
           ELSE LET check_types  == GroupBy(cross_checks, "Check Type")
                    cross_config == CrossConfig(cross_checks, check_types, 1, << >>)
                IN  /\ files' = DictSet(files, CrossFile, cross_config)
                    /\ writes' = Append(writes, CrossFile)
                    /\ out' = Append(out, [ line   |-> "created",
                                            file   |-> CrossFile,
                                            checks |-> Len(cross_checks) ])
                    /\ pc' = "estar"
                    /\ UNCHANGED fault
    /\ UNCHANGED <<script, uploads, analysis_checks, phase_data, todo>>

\* lines 54-94: the eSTAR stage and the closing line
EstarStage ==
    /\ pc = "estar"
    /\ LET estar_checks == DictReader(uploads.estar)
       IN  IF EstarFault(estar_checks) # "none"
           THEN /\ fault' = EstarFault(estar_checks)
                /\ pc' = "fault"
                /\ UNCHANGED <<files, writes, out>>
           ELSE LET sections     == GroupBy(estar_checks, "Check Category")
                    estar_config == EstarConfig(estar_checks, sections, 1, << >>)
                IN  /\ files' = DictSet(files, EstarFile, estar_config)
                    /\ writes' = Append(writes, EstarFile)
                    /\ out' = Append(Append(out, [ line   |-> "created",
                                                   file   |-> EstarFile,
                                                   checks |-> Len(estar_checks) ]),
                                     [line |-> "all generated"])
                    /\ pc' = "done"
                    /\ UNCHANGED fault
    /\ UNCHANGED <<script, uploads, analysis_checks, phase_data, todo>>

----------------------------------------------------------------------------
(* The input files *)

\* Bounds of the inputs
MaxRows == 3

MaxShortRows == 2

MaxOver == 2

SeqsUpTo(S, n) == UNION { [1..m -> S] : m \in 0..n }

\* The columns the scripts read, in the order they read them (the CSV files
\* themselves are not part of the repository).
AnalysisHeader ==
    << "Phase", "Category", DescCol, "Regulatory Source", "Source Section",
       "eSTAR Section Relevance", "Design V&V Reference", "Testing Ref",
       "Priority", "Automation Feasibility", "Notes" >>

CrossHeader ==
    << "Check Type", DescCol, "Phases/Categories Involved", "Regulatory Source",
       "Source Section", "eSTAR Section Relevance", "Design V&V Reference",
       "Priority", "Automation Feasibility", "Notes" >>

EstarHeader ==
    << "Check Category", "Draft Analysis Check", "eSTAR Section",
       "FDA Guidance Reference", "Priority", "Notes" >>

AnalysisOptional ==
    {"Design V&V Reference", "Testing Ref", "Priority", "Automation Feasibility", "Notes"}

CrossOptional == {"Design V&V Reference", "Priority", "Automation Feasibility", "Notes"}

EstarOptional == {"Priority", "Notes"}

Without(header, cols) == SelectSeq(header, LAMBDA c : c \notin cols)

Phase1 == << "P", "h", "a", "s", "e", " ", "1" >>

Phase2 == << "P", "h", "a", "s", "e", " ", "2" >>

Stage1 == << "S", "t", "a", "g", "e", " ", "1" >>

Software == << "S", "o", "f", "t", "w", "a", "r", "e" >>

Hardware == << "H", "a", "r", "d", "w", "a", "r", "e" >>

hardware == << "h", "a", "r", "d", "w", "a", "r", "e" >>

RandD == << "R", "&", "D", " ", "(", "a", "-", "b", ")", ",", " ", "c" >>

TraceA == << "T", "r", "a", "c", "e", " ", "A" >>

trace_a == << "t", "r", "a", "c", "e", "_", "a" >>

Gap == << "G", "a", "p" >>

SecAdminInfo == << "A", "d", "m", "i", "n", " ", "I", "n", "f", "o" >>

sec_admin_info == << "a", "d", "m", "i", "n", "_", "i", "n", "f", "o" >>

SecLabels == << "L", "a", "b", "e", "l", "s" >>

ShortDesc == << "C", "h", "e", "c", "k", " ", "i", "t" >>

Filled == << "x" >>

\* a description of n characters
DescOfLen(n) == [i \in 1..n |-> LowerChars[((i - 1) % 26) + 1]]

Descs == { DescOfLen(n) : n \in {0, 1, NameLen - 1} \cup (NameLen..(NameLen + MaxOver)) }

\* The cells of one full row: the label columns and the description as given,
\* every other column filled.
Cells(header, labels, desc) ==
    [i \in DOMAIN header |->
        IF header[i] \in DOMAIN labels THEN labels[header[i]]
        ELSE IF header[i] \in {DescCol, "Draft Analysis Check"} THEN desc
        ELSE Filled]

AnalysisCells(header, phase, category, desc) ==
    Cells(header, [c \in {"Phase", "Category"} |-> IF c = "Phase" THEN phase ELSE category], desc)

CrossCells(header, check_type, desc) ==
    Cells(header, [c \in {"Check Type"} |-> check_type], desc)

EstarCells(header, section, desc) ==
    Cells(header, [c \in {"Check Category"} |-> section], desc)

\* every prefix of a row: a row may be shorter than the header, down to a
\* blank line
Prefixes(cells) == { SubSeq(cells, 1, k) : k \in 0..Len(cells) }

Csv(header, rows) == [header |-> header, rows |-> rows]

EmptyCsv(header) == Csv(header, << >>)


PhaseNames == {Phase1, Phase2, Stage1}

CategoryNames == {Hardware, Software, hardware}

TypeNames == {TraceA, trace_a, Gap}

SectionNames == {SecAdminInfo, sec_admin_info, SecLabels}

Reverse(s) == [i \in DOMAIN s |-> s[Len(s) + 1 - i]]

\* 10^n
RECURSIVE Pow10(_)
Pow10(n) == IF n = 0 THEN 1 ELSE 10 * Pow10(n - 1)

\* group sizes around the first index that needs more than PadWidth digits
BigSizes == {Pow10(PadWidth) - 1, Pow10(PadWidth)}

AnalysisRequired == Range(AnalysisHeader) \ AnalysisOptional

CrossRequired == Range(CrossHeader) \ CrossOptional

EstarRequired == Range(EstarHeader) \ EstarOptional

\* Analysis Checks files: rows over the phase and category labels
AnalysisByLabel ==
    { Csv(AnalysisHeader, rows) :
        rows \in SeqsUpTo({ AnalysisCells(AnalysisHeader, p, c, ShortDesc) :
                              p \in PhaseNames, c \in CategoryNames }, MaxRows) }

\* ... rows with an empty Phase cell or a category with punctuation
AnalysisOddLabel ==
    { Csv(AnalysisHeader, rows) :
        rows \in SeqsUpTo({ AnalysisCells(AnalysisHeader, p, c, ShortDesc) :
                              p \in {<< >>, Phase1}, c \in {RandD, Software} }, MaxShortRows) }

\* ... rows shorter than the header (down to a blank line)
ShortRows(header, phases) ==
    SeqsUpTo(UNION { Prefixes(AnalysisCells(header, p, Software, ShortDesc)) : p \in phases },
             MaxShortRows)

\* ... for the header as read, without the optional columns, and in the
\* opposite column order
AnalysisShort ==
    { Csv(AnalysisHeader, rows) : rows \in ShortRows(AnalysisHeader, {Phase1, Phase2}) }
    \cup { Csv(Without(AnalysisHeader, AnalysisOptional), rows) :
             rows \in ShortRows(Without(AnalysisHeader, AnalysisOptional), {Phase1}) }
    \cup { Csv(Reverse(AnalysisHeader), rows) :
             rows \in ShortRows(Reverse(AnalysisHeader), {Phase1}) }

\* ... a header without one of the required columns
AnalysisNoColumn ==
    UNION { { Csv(Without(AnalysisHeader, {c}), rows) :
                rows \in SeqsUpTo({ AnalysisCells(Without(AnalysisHeader, {c}), p, Software,
                                        ShortDesc) : p \in {Phase1, Phase2} }, MaxShortRows) } :
            c \in AnalysisRequired }

\* ... one row per description length
AnalysisByDesc ==
    { Csv(AnalysisHeader, << AnalysisCells(AnalysisHeader, Phase1, Software, d) >>) :
        d \in Descs }

\* ... one large group
AnalysisBig ==
    { Csv(Without(AnalysisHeader, AnalysisOptional),
          [i \in 1..n |-> AnalysisCells(Without(AnalysisHeader, AnalysisOptional),
                              Phase1, Software, ShortDesc)]) : n \in BigSizes }

AnalysisFiles ==
    AnalysisByLabel \cup AnalysisOddLabel \cup AnalysisShort \cup AnalysisNoColumn
        \cup AnalysisByDesc \cup AnalysisBig

CrossRow == CrossCells(CrossHeader, TraceA, ShortDesc)

EstarRow == EstarCells(EstarHeader, SecLabels, ShortDesc)

CrossByLabel ==
    { Csv(CrossHeader, rows) :
        rows \in SeqsUpTo({ CrossCells(CrossHeader, t, ShortDesc) : t \in TypeNames },
                          MaxRows) }

EstarByLabel ==
    { Csv(EstarHeader, rows) :
        rows \in SeqsUpTo({ EstarCells(EstarHeader, t, ShortDesc) : t \in SectionNames },
                          MaxRows) }

CrossShort ==
    UNION { { Csv(h, rows) :
                rows \in SeqsUpTo(Prefixes(CrossCells(h, TraceA, ShortDesc)), MaxShortRows) } :
            h \in {CrossHeader, Without(CrossHeader, CrossOptional), Reverse(CrossHeader)} }

EstarShort ==
    UNION { { Csv(h, rows) :
                rows \in SeqsUpTo(Prefixes(EstarCells(h, SecLabels, ShortDesc)), MaxShortRows) } :
            h \in {EstarHeader, Without(EstarHeader, EstarOptional), Reverse(EstarHeader)} }

CrossNoColumn ==
    { Csv(Without(CrossHeader, {c}), << CrossCells(Without(CrossHeader, {c}), TraceA, ShortDesc) >>) :
        c \in CrossRequired }

EstarNoColumn ==
    { Csv(Without(EstarHeader, {c}), << EstarCells(Without(EstarHeader, {c}), SecLabels, ShortDesc) >>) :
        c \in EstarRequired }

\* The pairs of files generate-cross-estar.py is run on.
CrossEstarFiles ==
    (CrossByLabel \X {EmptyCsv(EstarHeader), Csv(EstarHeader, << EstarRow >>)})
    \cup ({EmptyCsv(CrossHeader), Csv(CrossHeader, << CrossRow >>)} \X EstarByLabel)
    \cup ((CrossShort \cup CrossNoColumn) \X {Csv(EstarHeader, << EstarRow >>)})
    \cup ({Csv(CrossHeader, << CrossRow >>)} \X (EstarShort \cup EstarNoColumn))
    \cup { << Csv(CrossHeader, << CrossCells(CrossHeader, TraceA, d) >>),
              Csv(EstarHeader, << EstarCells(EstarHeader, SecLabels, d) >>) >> : d \in Descs }
    \cup { << Csv(Without(CrossHeader, CrossOptional),
                  [i \in 1..n |-> CrossCells(Without(CrossHeader, CrossOptional), TraceA, ShortDesc)]),
              Csv(Without(EstarHeader, EstarOptional),
                  [i \in 1..n |-> EstarCells(Without(EstarHeader, EstarOptional), SecLabels, ShortDesc)]) >> :
           n \in BigSizes }

----------------------------------------------------------------------------
(* The two scripts *)

\* A run starts one of the two scripts on the files of the upload directory.
Init ==
    /\ \/ /\ script = "generate-all-configs.py"
          /\ pc = "analysis"
          /\ \E a \in AnalysisFiles :
                uploads = [analysis |-> a, cross |-> EmptyCsv(CrossHeader),
                           estar |-> EmptyCsv(EstarHeader)]
       \/ /\ script = "generate-cross-estar.py"
          /\ pc = "cross"
          /\ \E xe \in CrossEstarFiles :
                uploads = [analysis |-> EmptyCsv(AnalysisHeader), cross |-> xe[1],
                           estar |-> xe[2]]
    /\ analysis_checks = << >>
    /\ phase_data = << >>
    /\ todo = << >>
    /\ files = << >>
    /\ writes = << >>
    /\ out = << >>
    /\ fault = "none"

Next == ReadAndGroup \/ PhaseStep \/ Summary \/ CrossStage \/ EstarStage

Spec == Init /\ [][Next]_vars

----------------------------------------------------------------------------
(* What the claims speak of *)

AllConfigs == script = "generate-all-configs.py"

CrossEstar == script = "generate-cross-estar.py"

\* the rows of the input files, as the scripts read them
AnalysisRows == DictReader(uploads.analysis)

CrossRows == DictReader(uploads.cross)

EstarRows == DictReader(uploads.estar)

\* the documents of the output directory, by the script's three paths
PhaseDocs == SelectSeq(files, LAMBDA f : Len(f.k) = 3)

CrossDocs == SelectSeq(files, LAMBDA f : f.k = CrossFile)

EstarDocs == SelectSeq(files, LAMBDA f : f.k = EstarFile)

\* the places <<document, group, position>> of the emitted checks of docs
Places(docs) ==
    UNION { UNION { { << d, g, j >> : j \in DOMAIN docs[d].v[g].v.validation_checks } :
                      g \in DOMAIN docs[d].v } : d \in DOMAIN docs }

CheckAt(docs, pl) == docs[pl[1]].v[pl[2]].v.validation_checks[pl[3]]

SumCheckCount(docs) ==
    LET inDoc(doc) ==
            LET n[g \in 0..Len(doc)] == IF g = 0 THEN 0 ELSE n[g - 1] + doc[g].v.check_count
            IN  n[Len(doc)]
        m[d \in 0..Len(docs)] == IF d = 0 THEN 0 ELSE m[d - 1] + inDoc(docs[d].v)
    IN  m[Len(docs)]

\* every row of rows is emitted exactly once in docs (as many emitted checks
\* as rows, and every row among them), and the check counts add up to the
\* number of rows
TotalPartition(rows, docs) ==
    LET places == Places(docs)
    IN  /\ Cardinality(places) = Len(rows)
        /\ { CheckAt(docs, pl).row : pl \in places } = DOMAIN rows
        /\ SumCheckCount(docs) = Len(rows)

\* C1: after a run that succeeded, every input row of each file is a
\* validation check of exactly one emitted group of the written output, and
\* the check counts of the groups add up to the number of input rows.
C1_GroupingIsTotalPartition ==
    pc = "done" =>
        /\ AllConfigs => TotalPartition(AnalysisRows, PhaseDocs)
        /\ CrossEstar => TotalPartition(CrossRows, CrossDocs)
        /\ CrossEstar => TotalPartition(EstarRows, EstarDocs)

\* the rows of rows whose label in column col normalises to key
RowsOfKey(rows, col, key, norm(_)) == { r \in DOMAIN rows : norm(rows[r][col]) = key }

EmittedRows(group) ==
    { group.validation_checks[j].row : j \in DOMAIN group.validation_checks }

\* the phase whose document a phase file holds after the run: of the phases
\* with that number, the one written last
LastPhaseOf(path) ==
    CHOOSE p \in Range(Keys(phase_data)) :
        /\ PhaseFile(PhaseNum(p)) = path
        /\ \A q \in Range(Keys(phase_data)) :
              PhaseFile(PhaseNum(q)) = path /\ q # p => StrLess(q, p)

\* C3: labels that normalise to the same group key are merged: the one group
\* emitted under a key holds the checks of all rows whose label normalises
\* to it (in the Analysis path: of the rows of the document's phase).
C3_CollidingLabelsAreMerged ==
    pc = "done" =>
        /\ AllConfigs =>
              \A d \in DOMAIN PhaseDocs : \A g \in DOMAIN PhaseDocs[d].v :
                  { r \in RowsOfKey(AnalysisRows, "Category", PhaseDocs[d].v[g].k, safe_key) :
                      AnalysisRows[r]["Phase"] = LastPhaseOf(PhaseDocs[d].k) }
                      \subseteq EmittedRows(PhaseDocs[d].v[g].v)
        /\ CrossEstar =>
              \A d \in DOMAIN CrossDocs : \A g \in DOMAIN CrossDocs[d].v :
                  RowsOfKey(CrossRows, "Check Type", CrossDocs[d].v[g].k, type_key)
                      \subseteq EmittedRows(CrossDocs[d].v[g].v)
        /\ CrossEstar =>
              \A d \in DOMAIN EstarDocs : \A g \in DOMAIN EstarDocs[d].v :
                  RowsOfKey(EstarRows, "Check Category", EstarDocs[d].v[g].k, type_key)
                      \subseteq EmittedRows(EstarDocs[d].v[g].v)

\* the distinct Phase values of the input
InputPhases == { AnalysisRows[r]["Phase"] : r \in DOMAIN AnalysisRows }

CategoriesOf(phase) ==
    { AnalysisRows[r]["Category"] : r \in { q \in DOMAIN AnalysisRows :
                                              AnalysisRows[q]["Phase"] = phase } }

\* C4: after a run of the Analysis Checks generator that succeeded there are
\* as many phase documents as the input has distinct Phase values, and the
\* document at the path of a phase's number holds a group for every category
\* of that phase.
C4_OneDocumentPerPhase ==
    pc = "done" /\ AllConfigs =>
        /\ Len(PhaseDocs) = Cardinality(InputPhases)
        /\ \A p \in InputPhases :
              /\ DictHas(files, PhaseFile(PhaseNum(p)))
              /\ \A c \in CategoriesOf(p) :
                    \E g \in DOMAIN DictGet(files, PhaseFile(PhaseNum(p))) :
                        LET group == DictGet(files, PhaseFile(PhaseNum(p)))[g].v
                        IN  /\ group.display_name = c
                            /\ group.folder_path = p \o << "/" >> \o c

\* the phases of the input in ascending order
PhasesAscending == SortStrings(InputPhases)

Ascending(labels) ==
    \A i, j \in DOMAIN labels : i < j => StrLess(labels[i], labels[j])

DisplayNames(doc) == [g \in DOMAIN doc |-> doc[g].v.display_name]

\* which documents, which groups, in which order, the Analysis path puts out
\* for rows
AnalysisOrdering(rows) ==
    LET pd    == GroupByPhase(rows)
        order == SortedKeys(pd)
    IN  [i \in DOMAIN order |->
            << PhaseFile(PhaseNum(order[i])),
               DisplayNames(AnalysisConfig(rows, order[i], PhaseNum(order[i]),
                   DictGet(pd, order[i]), SortedKeys(DictGet(pd, order[i])), << >>)) >>]

\* C8: in the Analysis path the phase documents are written in ascending
\* order of phase name, the groups of a document are in ascending order of
\* category label, and the ordering of the output is the same for every
\* permutation of the input rows.
C8_SortedOutputOrder ==
    AllConfigs /\ pc \in {"phases", "done"} =>
        /\ writes = [i \in DOMAIN writes |-> PhaseFile(PhaseNum(PhasesAscending[i]))]
        /\ \A d \in DOMAIN PhaseDocs : Ascending(DisplayNames(PhaseDocs[d].v))
        /\ pc = "done" /\ Len(AnalysisRows) <= MaxRows =>
              \A f \in Permutations(DOMAIN AnalysisRows) :
                  AnalysisOrdering([i \in DOMAIN AnalysisRows |-> AnalysisRows[f[i]]])
                      = AnalysisOrdering(AnalysisRows)

\* the position of the first input row labelled label
FirstRow(rows, col, label) ==
    CHOOSE r \in DOMAIN rows :
        /\ rows[r][col] = label
        /\ \A q \in 1..(r - 1) : rows[q][col] # label

FirstSeenOrder(rows, col, doc) ==
    \A g, h \in DOMAIN doc :
        g # h =>
            (g < h <=> FirstRow(rows, col, doc[g].v.display_name)
                           < FirstRow(rows, col, doc[h].v.display_name))

\* C9: after a run of generate-cross-estar.py that succeeded, exactly one
\* cross-cutting and one eSTAR document were written, and in each a group
\* precedes another exactly when the first input row carrying its label
\* comes before the first input row carrying the other's label.
C9_FirstSeenGroupOrder ==
    pc = "done" /\ CrossEstar =>
        /\ writes = << CrossFile, EstarFile >>
        /\ Len(files) = 2
        /\ FirstSeenOrder(CrossRows, "Check Type", DictGet(files, CrossFile))
        /\ FirstSeenOrder(EstarRows, "Check Category", DictGet(files, EstarFile))

\* a row lacks a column: the header has no such column, or the row is
\* shorter than the header
Lacks(row, col) == col \notin DOMAIN row \/ row[col] = None

LacksAny(rows, cols) == \E r \in DOMAIN rows : \E c \in cols : Lacks(rows[r], c)

\* the phases a row of which lacks a required column
FaultyPhases ==
    { AnalysisRows[r]["Phase"] :
        r \in { q \in DOMAIN AnalysisRows :
                  \E c \in AnalysisRequired : Lacks(AnalysisRows[q], c) } }

\* the phases that sort before every phase of FaultyPhases
PhasesBeforeFault ==
    SelectSeq(PhasesAscending, LAMBDA p : \A q \in FaultyPhases : StrLess(p, q))

\* C10: a row lacking a required field keeps the run from reaching its end;
\* in the Analysis path no document is ever written when a row lacks Phase
\* or Category, and when a row lacks another required field the run stops
\* with exactly the documents of the phases that sort before that row's
\* phase; a fault of the eSTAR stage leaves the cross-cutting document.
C10_MissingRequiredAborts ==
    /\ AllConfigs /\ LacksAny(AnalysisRows, AnalysisRequired) => pc # "done"
    /\ CrossEstar /\ (LacksAny(CrossRows, CrossRequired) \/ LacksAny(EstarRows, EstarRequired))
          => pc # "done"
    /\ AllConfigs /\ LacksAny(AnalysisRows, {"Phase", "Category"}) => files = << >>
    /\ AllConfigs /\ pc = "fault" /\ ~LacksAny(AnalysisRows, {"Phase", "Category"})
          /\ LacksAny(AnalysisRows, AnalysisRequired)
          => writes = [i \in DOMAIN PhasesBeforeFault |->
                          PhaseFile(PhaseNum(PhasesBeforeFault[i]))]
    /\ CrossEstar /\ pc = "fault" /\ ~LacksAny(CrossRows, CrossRequired)
          => writes = << CrossFile >> /\ DictHas(files, CrossFile)

\* an emitted field is the empty string when the row lacks its column
EmptyIfLacking(row, col, field) == Lacks(row, col) => field = << >>

\* C6: a row that lacks an optional column (the header has no such column, or
\* the row is shorter than the header) does not abort the run, and the field
\* of the emitted check is the empty string.
C6_OptionalMissingIsEmpty ==
    /\ pc = "fault" =>
          \/ AllConfigs /\ LacksAny(AnalysisRows, AnalysisRequired)
          \/ AllConfigs /\ \E p \in InputPhases : Split(p, << >>) = << >>
          \/ CrossEstar /\ LacksAny(CrossRows, CrossRequired)
          \/ CrossEstar /\ LacksAny(EstarRows, EstarRequired)
    /\ \A pl \in Places(PhaseDocs) :
          LET c   == CheckAt(PhaseDocs, pl)
              row == AnalysisRows[c.row]
          IN  /\ EmptyIfLacking(row, "Design V&V Reference", c.design_vv_reference)
              /\ EmptyIfLacking(row, "Testing Ref", c.testing_ref)
              /\ EmptyIfLacking(row, "Priority", c.priority)
              /\ EmptyIfLacking(row, "Automation Feasibility", c.automation_feasibility)
              /\ EmptyIfLacking(row, "Notes", c.notes)
    /\ \A pl \in Places(CrossDocs) :
          LET c   == CheckAt(CrossDocs, pl)
              row == CrossRows[c.row]
          IN  /\ EmptyIfLacking(row, "Design V&V Reference", c.design_vv_reference)
              /\ EmptyIfLacking(row, "Priority", c.priority)
              /\ EmptyIfLacking(row, "Automation Feasibility", c.automation_feasibility)
              /\ EmptyIfLacking(row, "Notes", c.notes)
    /\ \A pl \in Places(EstarDocs) :
          LET c   == CheckAt(EstarDocs, pl)
              row == EstarRows[c.row]
          IN  /\ EmptyIfLacking(row, "Priority", c.priority)
              /\ EmptyIfLacking(row, "Notes", c.notes)

\* a file with a header and no data rows (blank lines at most)
HeaderOnly(csv) == \A i \in DOMAIN csv.rows : csv.rows[i] = << >>

Reported(line, file, n) == \E i \in DOMAIN out : out[i] = [line |-> line, file |-> file, checks |-> n]

\* what holds of the Cross-Phase and the eSTAR stage on a header-only file:
\* the stage does not fault, writes a document without groups and reports 0
\* checks
EmptyCrossEstarInput ==
    /\ CrossEstar /\ HeaderOnly(uploads.cross) /\ pc \in {"estar", "done", "fault"} =>
          /\ DictHas(files, CrossFile)
          /\ DictGet(files, CrossFile) = << >>
          /\ Reported("created", CrossFile, 0)
    /\ CrossEstar /\ HeaderOnly(uploads.estar) /\ pc = "fault" => ~DictHas(files, CrossFile)
    /\ CrossEstar /\ HeaderOnly(uploads.estar) /\ pc = "done" =>
          /\ DictHas(files, EstarFile)
          /\ DictGet(files, EstarFile) = << >>
          /\ Reported("created", EstarFile, 0)

\* C5 as stated: on a file with a header and no data rows each of the three
\* generators ends without a fault, having written a document with zero
\* groups and reported 0 checks.
C5_EmptyInputWritesEmptyDocument ==
    /\ AllConfigs /\ HeaderOnly(uploads.analysis) =>
          /\ pc # "fault"
          /\ pc = "done" =>
                /\ \E d \in DOMAIN PhaseDocs : PhaseDocs[d].v = << >>
                /\ \E i \in DOMAIN out : out[i] = [line |-> "total", checks |-> 0]
    /\ EmptyCrossEstarInput

\* C5 (amended): on a file with a header and no data rows the Analysis Checks
\* generator ends without a fault, writes no document at all and reports a
\* total of 0 checks; the Cross-Phase and the eSTAR stage each write a
\* document with zero groups and report 0 checks, without a fault.
C5_EmptyInput ==
    /\ AllConfigs /\ HeaderOnly(uploads.analysis) =>
          /\ pc # "fault"
          /\ files = << >>
          /\ pc = "done" => out = << [line |-> "total", checks |-> 0] >>
    /\ EmptyCrossEstarInput

\* C5: reached: the Analysis Checks generator has ended on a header-only
\* file, with no document written and a total of 0 reported
C5_Witness ==
    /\ AllConfigs
    /\ pc = "done"
    /\ HeaderOnly(uploads.analysis)
    /\ files = << >>
    /\ out = << [line |-> "total", checks |-> 0] >>

\* check carries the description desc of its input row: whole as the
\* question, cut to 100 characters as the name
NameOf(desc, check) ==
    /\ Len(check.check_name) <= 100
    /\ check.llm_validation.question = desc
    /\ Len(desc) <= 100 => check.check_name = desc
    /\ Len(desc) > 100 => check.check_name = [i \in 1..100 |-> desc[i]]

\* C7: the check_name of every emitted check has at most 100 characters and
\* is the description of its input row (emitted unchanged as the question)
\* when that has at most 100 characters, else its first 100 characters.
C7_CheckNameTruncated ==
    /\ \A pl \in Places(PhaseDocs) :
          NameOf(AnalysisRows[CheckAt(PhaseDocs, pl).row][DescCol], CheckAt(PhaseDocs, pl))
    /\ \A pl \in Places(CrossDocs) :
          NameOf(CrossRows[CheckAt(CrossDocs, pl).row][DescCol], CheckAt(CrossDocs, pl))
    /\ \A pl \in Places(EstarDocs) :
          NameOf(EstarRows[CheckAt(EstarDocs, pl).row]["Draft Analysis Check"],
                 CheckAt(EstarDocs, pl))

\* C7: reached: a description of more than 100 characters was emitted, cut
C7_Witness ==
    \E pl \in Places(files) :
        /\ Len(CheckAt(files, pl).llm_validation.question) > 100
        /\ Len(CheckAt(files, pl).check_name) = 100

\* the value of a sequence of decimal digits
DecValue(ds) ==
    LET v[i \in 0..Len(ds)] ==
            IF i = 0 THEN 0 ELSE 10 * v[i - 1] + (IndexOf(DigitChars, ds[i]) - 1)
    IN  v[Len(ds)]

\* tok is the last whitespace-delimited token of name
IsLastToken(tok, name) ==
    /\ tok # << >>
    /\ \A i \in DOMAIN tok : tok[i] \notin WhiteSpace
    /\ \E k \in DOMAIN name :
          /\ k + Len(tok) - 1 <= Len(name)
          /\ [i \in 1..Len(tok) |-> name[k + i - 1]] = tok
          /\ \A i \in (k + Len(tok))..Len(name) : name[i] \in WhiteSpace
          /\ k > 1 => name[k - 1] \in WhiteSpace

\* the first n characters of key, upper-cased
Abbrev(key, n) == Upper([i \in 1..(IF Len(key) < n THEN Len(key) ELSE n) |-> key[i]])

\* id is head, then the abbreviation of key, a dash and the index j in
\* decimal digits; exact: in exactly three digits, else: in at least three,
\* without a leading zero beyond three
IdFormat(id, head, key, n, j, exact) ==
    LET stem == head \o Abbrev(key, n) \o << "-" >>
        ds   == [i \in 1..(Len(id) - Len(stem)) |-> id[Len(stem) + i]]
    IN  /\ Len(id) > Len(stem)
        /\ [i \in 1..Len(stem) |-> id[i]] = stem
        /\ \A i \in DOMAIN ds : ds[i] \in Range(DigitChars)
        /\ DecValue(ds) = j
        /\ IF exact THEN Len(ds) = 3
           ELSE Len(ds) >= 3 /\ (Len(ds) > 3 => ds[1] # "0")

\* the identifiers of a group are pairwise distinct and numbered 1..n in the
\* format of the path
GroupIds(entry, head, n, exact) ==
    LET checks == entry.v.validation_checks
    IN  /\ Cardinality({ checks[j].check_id : j \in DOMAIN checks }) = Len(checks)
        /\ entry.v.check_count = Len(checks)
        /\ \A j \in DOMAIN checks : IdFormat(checks[j].check_id, head, entry.k, n, j, exact)

\* the phase number a group's identifiers carry: the text between the P and
\* the first dash of its first identifier
PhaseToken(entry) ==
    LET id == entry.v.validation_checks[1].check_id
        e  == CHOOSE k \in DOMAIN id : id[k] = "-" /\ \A i \in 1..(k - 1) : id[i] # "-"
    IN  [i \in 1..(e - 2) |-> id[i + 1]]

AllIds(exact) ==
    /\ \A d \in DOMAIN PhaseDocs : \A g \in DOMAIN PhaseDocs[d].v :
          LET entry == PhaseDocs[d].v[g]
          IN  /\ entry.v.validation_checks # << >>
              /\ entry.v.validation_checks[1].check_id[1] = "P"
              /\ IsLastToken(PhaseToken(entry),
                     AnalysisRows[entry.v.validation_checks[1].row]["Phase"])
              /\ entry.k = safe_key(entry.v.display_name)
              /\ GroupIds(entry, << "P" >> \o PhaseToken(entry) \o << "-" >>, 4, exact)
    /\ \A d \in DOMAIN CrossDocs : \A g \in DOMAIN CrossDocs[d].v :
          GroupIds(CrossDocs[d].v[g], << "X", "-" >>, 5, exact)
    /\ \A d \in DOMAIN EstarDocs : \A g \in DOMAIN EstarDocs[d].v :
          GroupIds(EstarDocs[d].v[g], << "E", "S", "T", "A", "R", "-" >>, 6, exact)

\* the rows Phase 1/Software and Phase 1/Hardware yield P1-SOFT-001 and
\* P1-HARD-001
IdExample ==
    /\ pc = "done"
    /\ Len(AnalysisRows) = 2
    /\ AnalysisRows[1]["Phase"] = Phase1 /\ AnalysisRows[1]["Category"] = Software
    /\ AnalysisRows[2]["Phase"] = Phase1 /\ AnalysisRows[2]["Category"] = Hardware
    => LET doc == DictGet(files, << "phase", << "1" >>, "-validation.yaml" >>)
       IN  /\ DictGet(doc, << "s", "o", "f", "t", "w", "a", "r", "e" >>).validation_checks[1].check_id = << "P", "1", "-", "S", "O", "F", "T", "-", "0", "0", "1" >>
           /\ DictGet(doc, << "h", "a", "r", "d", "w", "a", "r", "e" >>).validation_checks[1].check_id = << "P", "1", "-", "H", "A", "R", "D", "-", "0", "0", "1" >>

\* C2 as stated: in every emitted group the identifiers are pairwise
\* distinct, numbered 1..n, and of the format P<last token of the phase
\* name>-<first 4 characters of the key, upper-cased>-<index in 3 digits>
\* (X- with 5 characters, ESTAR- with 6).
C2_IdsHaveThreeDigitIndex == AllIds(TRUE) /\ (AllConfigs => IdExample)

\* C2 (amended): as stated, but the index is written in at least 3 digits:
\* zero-padded to 3 digits up to 999, in 4 or more digits from the 1000th
\* check of a group on.
C2_IdFormat == AllIds(FALSE) /\ (AllConfigs => IdExample)

\* C2: reached: a group of 1000 checks was emitted
C2_Witness ==
    \E d \in DOMAIN files : \E g \in DOMAIN files[d].v :
        files[d].v[g].v.check_count = 1000

====
